---------------------------- MODULE Spec2Model ----------------------------
(***************************************************************************)
(* A model of these parts of r55:                                          *)
(*                                                                         *)
(*   - r55-compile: discovery of the contract projects, the temporary      *)
(*     crates, sort_generated_contracts and the build loop of main         *)
(*     (SortSpec, SortFairSpec, BuildSpec, MainSpec);                      *)
(*   - eth-riscv-runtime/src/types/mapping.rs: Mapping, NestedMapping and  *)
(*     MappingGuard with the SLOAD / SSTORE traffic they cause (GuardSpec, *)
(*     SlotSpec);                                                          *)
(*   - eth-riscv-runtime/src/create.rs: Deployable::deploy (DeploySpec);   *)
(*   - r55/src/gas.rs: syscall_gas (GasSpec);                              *)
(*   - eth-riscv-runtime/src/call.rs: call_contract, staticcall_contract   *)
(*     and the call contexts of interface handles (CallSpec, PeerSpec);    *)
(*     addresses in the registers of call, staticcall and create (AbiSpec);*)
(*   - examples/erc20x: ERC20x::x_transfer_from (XferSpec).                *)
(*                                                                         *)
(* Each part has its own specification; the variables of the other parts   *)
(* stay at their initial value.                                            *)
(***************************************************************************)
EXTENDS Integers, Sequences, FiniteSets, TLC

VARIABLES
    \* ---- sort_generated_contracts ----
    contracts,        \* the argument `contracts: Vec<GeneratedContract>`
    dependency_map,   \* HashMap<String, Vec<String>>
    sorted,           \* Vec<GeneratedContract>
    remaining,        \* Vec<GeneratedContract>
    passes,           \* number of while-loop passes run so far
    sortPc,           \* "wait" (main has not called the sort yet), "start",
                      \* "loop", "ok" (returned Ok(sorted)), "err"
    \* ---- Mapping / MappingGuard ----
    storage,          \* host storage of the contract: slot -> value
    guards,           \* every MappingGuard created in the frame
    nested,           \* ids of the NestedMapping objects in the arena
    trace,            \* the SLOAD / SSTORE syscalls the host has served
    frame,            \* "running" or "ended"
    \* ---- Deployable::deploy ----
    creates,          \* the Create syscalls the host has served
    deploys,          \* number of Deployable::deploy calls that returned
    \* ---- main of r55-compile: the loop over the sorted contracts ----
    buildPc,          \* "sort", "glue_temp", "glue_work", "runtime", "deploy",
                      \* "write", "done" (Ok(())) or "failed" (Err or exit(1))
    buildIdx,         \* position in sorted_contracts of the contract in work
    written,          \* bin files this run wrote: package name -> bytes
    glue,             \* the deployable.rs files this run wrote
    runtimeBlob,      \* what the last compile_runtime returned
    deployBlob,       \* what the last compile_deploy returned
    \* ---- main of r55-compile: discovery and temporary crates ----
    entries,          \* the candidate projects, in the order read_dir yields them
    findIdx,          \* number of entries find_r55_contract_projects has handled
    examples,         \* Vec<ContractProject>: the projects found so far
    discPc,           \* "idle", "find", "sort" (handed to the sort), "failed"
    \* ---- the host's gas accounting for syscalls ----
    gas,              \* interpreter.gas: [limit, remaining]
    action,           \* [result, output]: the InterpreterAction::Return the frame
                      \* ended with; result "Continue" while it runs
    hostStorage,      \* the contract's storage on the host: slot -> value
    gasLog,           \* the syscalls the host was asked for, with their charge
    \* ---- call_contract / staticcall_contract ----
    callArgs,         \* [fn, ret_size]: the function called and its ret_size argument
    returnData,       \* length of the return data the callee leaves on the host
    callPc,           \* "idle", "call", "ret_size", "copy", "returned"
    callLocals,       \* [ret_size, i]: the locals of the function
    callResult,       \* length of the Bytes returned
    syscalls,         \* the syscalls issued, in order
    handle,           \* [view, ctx, method]: the interface handle of the handler
                      \* in work, "none" where not there yet
    ret_data,         \* the Vec<u8> `ret_data` of the call function
    \* ---- addresses in registers: call, staticcall, create ----
    abiAddr,          \* the Address handed to call / staticcall: 20 bytes
    abiRegs,          \* a0, a1, a2 at the ecall: each u64 as its 8 big-endian bytes
    abiDecoded,       \* the Address create builds from a0, a1, a2
    abiPc,            \* "idle", "start", "ecall", "decoded"
    \* ---- ERC20x::x_transfer_from ----
    xArgs,            \* [from, sender, amount]: the arguments of the handler and msg_sender()
    xCalls,           \* the transfer_from calls made to the token, with their results
    xPc,              \* "idle", "first", "match", "second", "returned"
    xResult           \* what the handler returned

sortVars == <<contracts, dependency_map, sorted, remaining, passes, sortPc>>
guardVars == <<storage, guards, nested, trace, frame>>
deployVars == <<creates, deploys>>
buildVars == <<buildPc, buildIdx, written, glue, runtimeBlob, deployBlob>>
vars == <<contracts, dependency_map, sorted, remaining, passes, sortPc,
          storage, guards, nested, trace, frame, creates, deploys,
          buildPc, buildIdx, written, glue, runtimeBlob, deployBlob,
          entries, findIdx, examples, discPc,
          gas, action, hostStorage, gasLog,
          callArgs, returnData, callPc, callLocals, callResult, syscalls, handle, ret_data,
          abiAddr, abiRegs, abiDecoded, abiPc, xArgs, xCalls, xPc, xResult>>
abiVars == <<abiAddr, abiRegs, abiDecoded, abiPc>>
xferVars == <<xArgs, xCalls, xPc, xResult>>
callVars == <<callArgs, returnData, callPc, callLocals, callResult, syscalls, handle, ret_data>>
gasVars == <<gas, action, hostStorage, gasLog>>
discVars == <<entries, findIdx, examples, discPc>>

\* What the operations of one part leave alone: the variables of the others.
sortOthers == <<guardVars, deployVars, buildVars, discVars, gasVars, callVars, abiVars, xferVars>>
guardOthers == <<sortVars, deployVars, buildVars, discVars, gasVars, callVars, abiVars, xferVars>>
deployOthers == <<sortVars, guardVars, buildVars, discVars, gasVars, callVars, abiVars, xferVars>>
buildOthers == <<guardVars, deployVars, discVars, gasVars, callVars, abiVars, xferVars>>
discOthers == <<guardVars, deployVars, gasVars, callVars, abiVars, xferVars>>
gasOthers == <<sortVars, guardVars, deployVars, buildVars, discVars, callVars, abiVars, xferVars>>
callOthers == <<sortVars, guardVars, deployVars, buildVars, discVars, gasVars, abiVars, xferVars>>
abiOthers == <<sortVars, guardVars, deployVars, buildVars, discVars, gasVars, callVars, xferVars>>
xferOthers == <<sortVars, guardVars, deployVars, buildVars, discVars, gasVars, callVars, abiVars>>

(***************************************************************************)
(* Bounds of the model.                                                    *)
(***************************************************************************)
MaxContracts == 3
MaxSyscalls == 3
MaxValue == 1
MaxCodeLen == 2
MaxDeploys == 2
MaxChunks == 2

\* Package names that occur as a contract's name or in a dependency list.
Names == {"a", "b", "c"}

(***************************************************************************)
(* sort_generated_contracts                                                *)
(***************************************************************************)

\* GeneratedContract, reduced to the two fields the sort reads. `deps` is a
\* Vec<String> that the sort only tests with `all`, so its order and
\* repetitions do not matter: it is kept as a set.
GeneratedContract == [name : Names, deps : SUBSET Names]

\* Every Vec<GeneratedContract> of at most MaxContracts elements. Neither the
\* type nor the function requires the names to be distinct.
ContractLists == UNION {[1..n -> GeneratedContract] : n \in 0..MaxContracts}

\* The HashMap after `insert(contract.name, contract.deps)` for every contract
\* in order: a later insert of the same key replaces the earlier one.
BuildDependencyMap(cs) ==
    [n \in {cs[i].name : i \in DOMAIN cs} |->
        LET last == CHOOSE i \in DOMAIN cs :
                        /\ cs[i].name = n
                        /\ \A j \in DOMAIN cs : cs[j].name = n => j <= i
        IN  cs[last].deps]

\* deps.iter().all(|dep| sorted.iter().any(|c| &c.name == dep))
AllDepsSorted(deps, srt) ==
    \A dep \in deps : \E j \in DOMAIN srt : srt[j].name = dep

\* The `for contract in remaining` loop of one pass, from element i on.
RECURSIVE ForRemaining(_, _, _, _, _)
ForRemaining(map, rem, i, srt, next_remaining) ==
    IF i > Len(rem)
    THEN [sorted |-> srt, next_remaining |-> next_remaining]
    ELSE LET contract == rem[i]
             deps == map[contract.name]
         IN  IF AllDepsSorted(deps, srt)
             THEN ForRemaining(map, rem, i + 1, Append(srt, contract), next_remaining)
             ELSE ForRemaining(map, rem, i + 1, srt, Append(next_remaining, contract))

\* The state of a part none of whose operations has run.
SortIdle ==
    /\ contracts = <<>>
    /\ dependency_map = <<>>
    /\ sorted = <<>>
    /\ remaining = <<>>
    /\ passes = 0
    /\ sortPc = "start"

GuardIdle ==
    /\ storage = <<>>
    /\ guards = <<>>
    /\ nested = {}
    /\ trace = <<>>
    /\ frame = "running"

DeployIdle ==
    /\ creates = <<>>
    /\ deploys = 0

BuildIdle ==
    /\ buildPc = "sort"
    /\ buildIdx = 0
    /\ written = <<>>
    /\ glue = {}
    /\ runtimeBlob = <<>>
    /\ deployBlob = <<>>

DiscIdle ==
    /\ entries = <<>>
    /\ findIdx = 0
    /\ examples = <<>>
    /\ discPc = "idle"

CallIdle ==
    /\ callArgs = [fn |-> "none", ret_size |-> [some |-> FALSE, size |-> 0]]
    /\ returnData = 0
    /\ callPc = "idle"
    /\ callLocals = [ret_size |-> 0, i |-> 0]
    /\ callResult = 0
    /\ syscalls = <<>>
    /\ handle = [view |-> "none", ctx |-> "none", method |-> "none"]
    /\ ret_data = <<>>

AbiIdle ==
    /\ abiAddr = <<>>
    /\ abiRegs = [nr |-> "none", a |-> <<>>]
    /\ abiDecoded = <<>>
    /\ abiPc = "idle"

XferIdle ==
    /\ xArgs = [from |-> 0, sender |-> 0, amount |-> 0]
    /\ xCalls = <<>>
    /\ xPc = "idle"
    /\ xResult = [ok |-> FALSE, err |-> "none", value |-> 0]

GasIdle ==
    /\ gas = [limit |-> 0, remaining |-> 0]
    /\ action = [result |-> "Continue", output |-> <<>>]
    /\ hostStorage = <<>>
    /\ gasLog = <<>>

SortInit ==
    /\ contracts \in ContractLists
    /\ dependency_map = <<>>
    /\ sorted = <<>>
    /\ remaining = <<>>
    /\ passes = 0
    /\ sortPc = "start"
    /\ GuardIdle
    /\ DeployIdle
    /\ AbiIdle
    /\ XferIdle
    /\ BuildIdle
    /\ DiscIdle
    /\ GasIdle
    /\ CallIdle

\* Lines 411-419: build the map, start with nothing sorted.
SortStart ==
    /\ sortPc = "start"
    /\ dependency_map' = BuildDependencyMap(contracts)
    /\ sorted' = <<>>
    /\ remaining' = contracts
    /\ sortPc' = "loop"
    /\ UNCHANGED <<contracts, passes>>
    /\ UNCHANGED sortOthers

\* A plausible slip: the length is compared with that of the whole input.
NoProgressSinceStart(initial_len, next_remaining) ==
    Len(next_remaining) = Len(contracts) /\ next_remaining # <<>>

\* `remaining.len() == initial_len && !remaining.is_empty()`.
NoProgress(initial_len, next_remaining) ==
    Len(next_remaining) = initial_len /\ next_remaining # <<>>

\* Lines 422-446: one pass of `while !remaining.is_empty()`.
SortPass ==
    /\ sortPc = "loop"
    /\ remaining # <<>>
    /\ LET initial_len == Len(remaining)
           r == ForRemaining(dependency_map, remaining, 1, sorted, <<>>)
       IN  /\ sorted' = r.sorted
           /\ remaining' = r.next_remaining
           /\ sortPc' = IF NoProgress(initial_len, r.next_remaining)
                        THEN "err"
                        ELSE "loop"
    /\ passes' = passes + 1
    /\ UNCHANGED <<contracts, dependency_map>>
    /\ UNCHANGED sortOthers

\* Line 449: Ok(sorted).
SortReturnOk ==
    /\ sortPc = "loop"
    /\ remaining = <<>>
    /\ sortPc' = "ok"
    /\ UNCHANGED <<contracts, dependency_map, sorted, remaining, passes>>
    /\ UNCHANGED sortOthers

SortNext ==
    \/ SortStart
    \/ SortPass
    \/ SortReturnOk

SortSpec == SortInit /\ [][SortNext]_vars

(***************************************************************************)
(* 256-bit words, ABI encoding and hashing                                 *)
(***************************************************************************)

\* A U256 is its four 64-bit limbs, least significant first, as
\* U256::from_limbs takes them. The model only uses limbs below 2^16.
U256FromLimbs(first, second, third, fourth) == <<first, second, third, fourth>>

\* The n big-endian bytes of the limb l.
RECURSIVE LimbToBeBytes(_, _)
LimbToBeBytes(l, n) ==
    IF n = 0 THEN <<>> ELSE Append(LimbToBeBytes(l \div 256, n - 1), l % 256)

\* The limb whose big-endian bytes are b.
RECURSIVE LimbFromBeBytes(_)
LimbFromBeBytes(b) ==
    IF b = <<>> THEN 0
    ELSE LimbFromBeBytes(SubSeq(b, 1, Len(b) - 1)) * 256 + b[Len(b)]

\* U256::to_be_bytes::<32>(): the most significant limb comes first.
ToBeBytes(u) ==
    LimbToBeBytes(u[4], 8) \o LimbToBeBytes(u[3], 8)
        \o LimbToBeBytes(u[2], 8) \o LimbToBeBytes(u[1], 8)

\* U256::from_be_bytes of a 32-byte digest (`.into()` of a B256).
FromBeBytes(b) ==
    U256FromLimbs(LimbFromBeBytes(SubSeq(b, 25, 32)), LimbFromBeBytes(SubSeq(b, 17, 24)),
                  LimbFromBeBytes(SubSeq(b, 9, 16)), LimbFromBeBytes(SubSeq(b, 1, 8)))

\* A stand-in for the Keccak-256 permutation: a digest of 32 bytes that depends
\* on every byte of the input and on its position. The input is absorbed in
\* lanes of 8 bytes; each 8-byte group of the digest carries a 16-bit rolling
\* hash with its own multiplier.
RECURSIVE Roll(_, _, _)
Roll(bytes, mult, h) ==
    IF bytes = <<>> THEN h
    ELSE Roll(Tail(bytes), mult, (h * mult + Head(bytes) + 1) % 65521)

RECURSIVE Absorb(_, _, _, _)
Absorb(bytes, lane, mult, h) ==
    IF 8 * (lane - 1) >= Len(bytes) THEN h
    ELSE LET last == IF 8 * lane < Len(bytes) THEN 8 * lane ELSE Len(bytes)
             word == Roll(SubSeq(bytes, 8 * (lane - 1) + 1, last), mult, lane)
         IN  Absorb(bytes, lane + 1, mult, (h * mult + word + 1) % 65521)

Digest(bytes) ==
    LimbToBeBytes(Absorb(bytes, 1, 31, 7), 8) \o LimbToBeBytes(Absorb(bytes, 1, 37, 11), 8)
        \o LimbToBeBytes(Absorb(bytes, 1, 41, 13), 8) \o LimbToBeBytes(Absorb(bytes, 1, 43, 17), 8)

\* The guest's keccak256(offset, size): the digest of the bytes, as a U256.
Keccak256(bytes) == FromBeBytes(Digest(bytes))

\* The keys of the model: addresses and uint256 words.
Address(n) == [kind |-> "address", bytes |-> [i \in 1..20 |-> IF i = 20 THEN n ELSE 0]]
Uint(n) == [kind |-> "uint256", word |-> U256FromLimbs(n, 0, 0, 0)]

\* SolValue::abi_encode of a key: an address is left-padded to 32 bytes, a
\* uint256 is its 32 big-endian bytes.
AbiEncode(key) ==
    IF key.kind = "address"
    THEN [i \in 1..12 |-> 0] \o key.bytes
    ELSE ToBeBytes(key.word)

\* A plausible slip: the id before the key.
EncodeKeyIdFirst(id, key) == Keccak256(ToBeBytes(id) \o AbiEncode(key))

\* Mapping::encode_key.
EncodeKey(id, key) ==
    LET key_bytes == AbiEncode(key)
        id_bytes == ToBeBytes(id)
        concatenated == key_bytes \o id_bytes
    IN  Keccak256(concatenated)

\* test_utils::get_mapping_slot.
GetMappingSlot(key_bytes, id) ==
    LET data_bytes == key_bytes \o ToBeBytes(id)
    IN  FromBeBytes(Digest(data_bytes))

(***************************************************************************)
(* Mapping, NestedMapping and MappingGuard                                 *)
(***************************************************************************)

\* StorageLayout::allocate for Mapping<K, S>.
Allocate(first, second, third, fourth) ==
    [id |-> U256FromLimbs(first, second, third, fourth)]

\* The two mapping fields of the modelled contract:
\*   balances:   Mapping<Address, U256>                   at slot 0
\*   allowances: Mapping<Address, Mapping<U256, U256>>    at slot 1
Balances == Allocate(0, 0, 0, 0)
Allowances == Allocate(1, 0, 0, 0)

AddressKeys == {Address(1), Address(2)}
UintKeys == {Uint(1), Uint(2)}

\* Mapping::encode_key for every mapping id and key of the model, computed once.
MappingIdsUsed ==
    {Balances.id, Allowances.id} \cup {EncodeKey(Allowances.id, k) : k \in AddressKeys}
KeySlot == [id \in MappingIdsUsed, k \in AddressKeys \cup UintKeys |-> EncodeKey(id, k)]

\* The values a slot may hold.
Values == 0..MaxValue

\* Every slot the frame can derive.
Slots ==
    {KeySlot[Balances.id, k] : k \in AddressKeys}
        \cup {KeySlot[KeySlot[Allowances.id, k1], k2] : k1 \in AddressKeys, k2 \in UintKeys}

\* The storage keys MappingGuard::new is called with directly.
OwnedSlots == {KeySlot[Balances.id, Address(1)]}

\* One syscall as the host sees it, with the guard and the method that issued it.
Syscall(op, key, value, guard, via) ==
    [op |-> op, key |-> key, value |-> value, guard |-> guard, via |-> via]

\* The guard whose SSTORE is the latest one to `key` in the trace t; 0 if none.
LastWriter(t, key) ==
    LET at == {p \in DOMAIN t : t[p].op = "SSTORE" /\ t[p].key = key}
    IN  IF at = {} THEN 0
        ELSE t[CHOOSE p \in at : \A q \in at : q <= p].guard

\* S::__read(key) and S::__write(key, value) for a one-word S: the SLOAD
\* syscall returns the word the slot holds, the SSTORE syscall replaces it.
StorableRead(st, key) == st[key]
StorableWrite(st, key, value) == [st EXCEPT ![key] = value]

\* A frame starts on fresh storage (every slot reads zero) with no guard.
GuardInit ==
    /\ storage = [s \in Slots |-> 0]
    /\ guards = <<>>
    /\ nested = {}
    /\ trace = <<>>
    /\ frame = "running"
    /\ SortIdle
    /\ DeployIdle
    /\ AbiIdle
    /\ XferIdle
    /\ BuildIdle
    /\ DiscIdle
    /\ GasIdle
    /\ CallIdle

\* MappingGuard::new(storage_key): S::__read is one SLOAD of the key; the guard
\* starts clean. `holder` is how the caller holds the guard: "owned" (by value,
\* from MappingGuard::new itself), "ref" (&MappingGuard from Index::index, in the
\* arena) or "mut" (&mut MappingGuard from IndexMut::index_mut, in the arena).
\* The fields viewed, seen, seen_live, mapping and key are history, not fields
\* of the struct: whether deref_mut was ever called, whose SSTORE the SLOAD
\* read and whether that guard was still alive, and the mapping id and key the
\* slot was derived from.
GuardNew(storage_key, holder, mapping, key) ==
    /\ frame = "running"
    /\ Len(trace) < MaxSyscalls
    /\ LET value == StorableRead(storage, storage_key)
           seen == LastWriter(trace, storage_key)
       IN  /\ guards' = Append(guards,
                  [value |-> value, storage_key |-> storage_key, dirty |-> FALSE,
                   holder |-> holder, live |-> TRUE, viewed |-> FALSE,
                   seen |-> seen,
                   seen_live |-> IF seen = 0 THEN FALSE ELSE guards[seen].live,
                   mapping |-> mapping, key |-> key])
           /\ trace' = Append(trace,
                  Syscall("SLOAD", storage_key, value, Len(guards) + 1, "new"))
    /\ UNCHANGED <<storage, nested, frame>>
    /\ UNCHANGED guardOthers

\* A guard made by calling MappingGuard::new directly and kept by value.
NewOwned(storage_key) ==
    GuardNew(storage_key, "owned", <<>>, <<>>)

\* Index<K> for Mapping<K, S>: balances[key].
Index(m, key) ==
    GuardNew(KeySlot[m.id, key], "ref", m.id, key)

\* IndexMut<K> for Mapping<K, S>: balances[key] in a mutable context.
IndexMut(m, key) ==
    GuardNew(KeySlot[m.id, key], "mut", m.id, key)

\* A plausible slip: the inner mapping keeps the id of the outer one.
NestedIdOfOuter(m, key) == m.id

\* The id Index<K1> gives the inner mapping: self.encode_key(key).
NestedId(m, key) == KeySlot[m.id, key]

\* Index<K1> for Mapping<K1, Mapping<K2, S>>: allowances[key] puts a
\* NestedMapping in the arena. `outer` and `key` are history.
NestedIndex(m, key) ==
    /\ frame = "running"
    /\ LET id == NestedId(m, key)
       IN  nested' = nested \cup {[mapping |-> [id |-> id], outer |-> m.id, key |-> key]}
    /\ nested' # nested
    /\ UNCHANGED <<storage, guards, trace, frame>>
    /\ UNCHANGED guardOthers

\* Deref for NestedMapping, then Index<K2> for Mapping<K2, S>: allowances[k1][k2].
\* NestedMapping has no DerefMut, so the inner mapping is only indexed immutably.
InnerIndex(n, key) ==
    /\ n \in nested
    /\ Index(n.mapping, key)

\* Deref for MappingGuard: a shared reference to the cached value; nothing
\* changes.
Deref(i) ==
    /\ frame = "running"
    /\ i \in DOMAIN guards
    /\ guards[i].live
    /\ guards[i].value \in Values
    /\ UNCHANGED <<storage, guards, nested, trace, frame>>
    /\ UNCHANGED guardOthers

\* A plausible slip: deref_mut leaves the flag as it found it.
DirtyKept(g) == g.dirty

\* The flag deref_mut leaves in the guard.
DirtyAfterDerefMut(g) == TRUE

\* DerefMut for MappingGuard, and the caller's store of v through the &mut it
\* returns (v may be the value already cached). Needs a mutable borrow of the
\* guard, which a guard from Index::index does not give.
DerefMut(i, v) ==
    /\ frame = "running"
    /\ i \in DOMAIN guards
    /\ guards[i].live
    /\ guards[i].holder \in {"mut", "owned"}
    /\ guards' = [guards EXCEPT ![i].dirty = DirtyAfterDerefMut(guards[i]),
                                ![i].value = v,
                                ![i].viewed = TRUE]
    /\ UNCHANGED <<storage, nested, trace, frame>>
    /\ UNCHANGED guardOthers

\* MappingGuard::write(&self, value): S::__write is one SSTORE; the guard itself
\* is not touched.
Write(i, v) ==
    /\ frame = "running"
    /\ i \in DOMAIN guards
    /\ guards[i].live
    /\ Len(trace) < MaxSyscalls
    /\ storage' = StorableWrite(storage, guards[i].storage_key, v)
    /\ trace' = Append(trace, Syscall("SSTORE", guards[i].storage_key, v, i, "write"))
    /\ UNCHANGED <<guards, nested, frame>>
    /\ UNCHANGED guardOthers

\* A plausible slip: drop stores whether or not the guard is dirty.
DropWritesAlways(g) == g.live

\* `if self.dirty` in Drop::drop.
DropWrites(g) == g.dirty

\* Drop for MappingGuard. Only a guard held by value is ever dropped: the guards
\* of index and index_mut are moved into the arena with ptr.write and handed
\* out as references, and the arena never runs destructors.
Drop(i) ==
    /\ frame = "running"
    /\ i \in DOMAIN guards
    /\ guards[i].live
    /\ guards[i].holder = "owned"
    /\ IF DropWrites(guards[i])
       THEN /\ storage' = StorableWrite(storage, guards[i].storage_key, guards[i].value)
            /\ trace' = Append(trace,
                   Syscall("SSTORE", guards[i].storage_key, guards[i].value, i, "drop"))
       ELSE UNCHANGED <<storage, trace>>
    /\ guards' = [guards EXCEPT ![i].live = FALSE]
    /\ UNCHANGED <<nested, frame>>
    /\ UNCHANGED guardOthers

\* The call frame ends: every guard held by value has gone out of scope.
FrameEnd ==
    /\ frame = "running"
    /\ \A i \in DOMAIN guards : guards[i].holder = "owned" => ~guards[i].live
    /\ frame' = "ended"
    /\ UNCHANGED <<storage, guards, nested, trace>>
    /\ UNCHANGED guardOthers

\* The guards of one frame on the slots of `balances`.
GuardNext ==
    \/ \E s \in OwnedSlots : NewOwned(s)
    \/ \E k \in AddressKeys : Index(Balances, k)
    \/ \E k \in AddressKeys : IndexMut(Balances, k)
    \/ \E i \in DOMAIN guards : Deref(i)
    \/ \E i \in DOMAIN guards, v \in Values : DerefMut(i, v)
    \/ \E i \in DOMAIN guards, v \in Values : Write(i, v)
    \/ \E i \in DOMAIN guards : Drop(i)
    \/ FrameEnd

GuardSpec == GuardInit /\ [][GuardNext]_vars

\* The slots one frame derives by indexing `balances` and `allowances`.
SlotNext ==
    \/ \E k \in AddressKeys : Index(Balances, k)
    \/ \E k \in AddressKeys : IndexMut(Balances, k)
    \/ \E k \in AddressKeys : NestedIndex(Allowances, k)
    \/ \E n \in nested, k \in UintKeys : InnerIndex(n, k)

SlotSpec == GuardInit /\ [][SlotNext]_vars

(***************************************************************************)
(* Properties of Mapping and MappingGuard                                  *)
(***************************************************************************)

\* The positions in the trace of the SLOADs and SSTOREs guard i has issued.
SLoadsBy(i) == {p \in DOMAIN trace : trace[p].op = "SLOAD" /\ trace[p].guard = i}
SStoresBy(i) == {p \in DOMAIN trace : trace[p].op = "SSTORE" /\ trace[p].guard = i}

\* C3: over the lifetime of a guard, under any sequence of deref, deref_mut and
\* write calls, at most one SLOAD and at most one SSTORE are issued for its key.
C3_AtMostOneLoadAndOneStore ==
    \A i \in DOMAIN guards :
        /\ Cardinality(SLoadsBy(i)) <= 1
        /\ Cardinality(SStoresBy(i)) <= 1

\* C4: when the frame has ended, a guard from index_mut that was never viewed
\* mutably (and never written through) has caused no SSTORE, and one that was
\* viewed mutably has caused exactly one SSTORE, of its final cached value to
\* its slot.
C4_IndexMutGuardFlushedByFrameEnd ==
    frame = "ended" =>
        \A i \in DOMAIN guards :
            guards[i].holder = "mut" =>
                IF guards[i].viewed
                THEN /\ Cardinality(SStoresBy(i)) = 1
                     /\ \A p \in SStoresBy(i) :
                            /\ trace[p].key = guards[i].storage_key
                            /\ trace[p].value = guards[i].value
                ELSE (\A p \in SStoresBy(i) : trace[p].via # "write")
                         => SStoresBy(i) = {}

\* C5: the step that drops a guard issues exactly one SSTORE, of the guard's
\* cached value to its storage key, if the guard is dirty, and no syscall at all
\* if it is not.
C5_DropStoresOnceIffDirty ==
    [][\A i \in DOMAIN guards :
          (guards[i].live /\ ~guards'[i].live) =>
              IF guards[i].dirty
              THEN /\ Len(trace') = Len(trace) + 1
                   /\ SubSeq(trace', 1, Len(trace)) = trace
                   /\ trace'[Len(trace')].op = "SSTORE"
                   /\ trace'[Len(trace')].key = guards[i].storage_key
                   /\ trace'[Len(trace')].value = guards[i].value
                   /\ storage' = [storage EXCEPT ![guards[i].storage_key] = guards[i].value]
              ELSE trace' = trace /\ storage' = storage]_vars

\* A dirty guard and a clean guard have both been dropped.
C5_Witness ==
    \E i, j \in DOMAIN guards :
        /\ ~guards[i].live /\ guards[i].dirty /\ SStoresBy(i) # {}
        /\ ~guards[j].live /\ ~guards[j].dirty

\* C6: a guard from the immutable index, used only through its shared
\* reference, causes exactly one SLOAD, of its derived slot, and no SSTORE.
C6_ReadOnlyAccessOneLoadNoStore ==
    \A i \in DOMAIN guards :
        guards[i].holder = "ref" =>
            /\ Cardinality(SLoadsBy(i)) = 1
            /\ \A p \in SLoadsBy(i) : trace[p].key = guards[i].storage_key
            /\ SStoresBy(i) = {}

\* C7: at every point the dirty flag of a guard is set if and only if deref_mut
\* has been called on it; creation, deref and write leave it unset and nothing
\* clears it.
C7_DirtyIffMutablyViewed ==
    \A i \in DOMAIN guards : guards[i].dirty <=> guards[i].viewed

\* One guard is dirty after deref_mut; another was written through and is clean.
C7_Witness ==
    \E i, j \in DOMAIN guards :
        /\ guards[i].dirty /\ guards[i].viewed
        /\ ~guards[j].dirty /\ SStoresBy(j) # {}

\* C24: every live guard whose dirty flag is not set caches the value that
\* storage currently holds at its key.
C24_CleanGuardCachesCurrentStorage ==
    \A i \in DOMAIN guards :
        guards[i].live /\ ~guards[i].dirty =>
            guards[i].value = StorableRead(storage, guards[i].storage_key)

\* C8: a guard whose SLOAD read a value stored through an earlier guard was
\* created after that earlier guard had been dropped.
C8_LaterGuardSeesOnlyDroppedGuardsWrites ==
    \A j \in DOMAIN guards : guards[j].seen # 0 => ~guards[j].seen_live

\* The guard g was made by indexing a mapping with a uint256 key.
ByUintKey(g) == g.holder # "owned" /\ g.key.kind = "uint256"

\* The slot of mapping `id` at `key` by the reference layout.
ReferenceSlot(id, key) == GetMappingSlot(AbiEncode(key), id)

\* C9: for every mapping id and key, encode_key is the slot the reference
\* get_mapping_slot(abi_encode(key), id) gives: every guard made by indexing a
\* mapping sits on that slot, and every nested mapping has that id.
C9_EncodeKeyIsReferenceSlot ==
    /\ \A i \in DOMAIN guards :
           guards[i].holder # "owned" =>
               guards[i].storage_key = ReferenceSlot(guards[i].mapping, guards[i].key)
    /\ \A n \in nested : n.mapping.id = ReferenceSlot(n.outer, n.key)

\* Both keys of `balances` and a key of an inner mapping have been indexed.
C9_Witness ==
    /\ \E i \in DOMAIN guards :
           guards[i].mapping = Balances.id /\ guards[i].key = Address(2)
    /\ \E i \in DOMAIN guards : ByUintKey(guards[i])

\* The guards made by indexing the inner mapping of the NestedMapping n.
InnerGuards(n) == {i \in DOMAIN guards : guards[i].mapping = n.mapping.id}

\* C10: indexing allowances with k1 gives an inner mapping seeded with the slot
\* of (k1, outer id), so allowances[k1][k2] sits on the slot of (k2, slot of
\* (k1, outer id)); the outer index step itself issues no SLOAD and no SSTORE.
C10_NestedIndexSeedsInnerMapping ==
    [][/\ nested' # nested =>
              (trace' = trace /\ guards' = guards /\ storage' = storage)
       /\ \A n \in nested' : n.mapping.id = ReferenceSlot(n.outer, n.key)
       /\ \A i \in DOMAIN guards' :
              ByUintKey(guards'[i]) =>
                  \E n \in nested' :
                      /\ guards'[i].mapping = n.mapping.id
                      /\ guards'[i].storage_key
                             = ReferenceSlot(ReferenceSlot(n.outer, n.key), guards'[i].key)]_vars

\* allowances[k1][k2] has been indexed for both k1.
C10_Witness ==
    /\ Cardinality(nested) = 2
    /\ \A n \in nested : InnerGuards(n) # {}

(***************************************************************************)
(* Properties of sort_generated_contracts                                  *)
(***************************************************************************)

\* How often contract c occurs in the list s.
Occurrences(s, c) == Cardinality({i \in DOMAIN s : s[i] = c})

\* s and t hold the same contracts, each as often in one as in the other.
IsPermutation(s, t) ==
    /\ Len(s) = Len(t)
    /\ \A c \in GeneratedContract : Occurrences(s, c) = Occurrences(t, c)

\* Every name in a contract's own deps is the name of an earlier contract.
DepsPrecede(s) ==
    \A i \in DOMAIN s : \A dep \in s[i].deps : \E j \in 1..(i - 1) : s[j].name = dep

\* The dependency graph of the input: an edge from contract i to contract j for
\* every name of contract j in the deps of contract i.
DepEdges(cs) ==
    {e \in (DOMAIN cs) \X (DOMAIN cs) : cs[e[2]].name \in cs[e[1]].deps}

RECURSIVE TransitiveClosure(_, _)
TransitiveClosure(R, n) ==
    IF n = 0
    THEN R
    ELSE TransitiveClosure(
             R \cup {<<p[1][1], p[2][2]>> : p \in {q \in R \X R : q[1][2] = q[2][1]}},
             n - 1)

HasCycle(cs) ==
    \E i \in DOMAIN cs : <<i, i>> \in TransitiveClosure(DepEdges(cs), Len(cs))

DistinctNames(cs) ==
    \A i, j \in DOMAIN cs : cs[i].name = cs[j].name => i = j

\* C1: whenever the sort returns Ok, the returned list is a permutation of the
\* input in which every dependency of every contract precedes the contract.
C1_OkIsTopologicalPermutation ==
    sortPc = "ok" => IsPermutation(sorted, contracts) /\ DepsPrecede(sorted)

\* C2: the sort returns the CyclicDependency error if and only if the
\* dependency graph of the input has a cycle, and Ok for every acyclic input.
C2_ErrIffCycle ==
    sortPc \in {"ok", "err"} => (sortPc = "err" <=> HasCycle(contracts))

\* The CompileError the sort returned: line 445 holds its only `Err`.
SortError ==
    IF sortPc = "err" THEN [kind |-> "CyclicDependency", dep |-> "none"]
    ELSE [kind |-> "none", dep |-> "none"]

\* The dependencies that name no generated contract.
UnresolvedDeps(cs) ==
    UNION {cs[i].deps : i \in DOMAIN cs} \ {cs[i].name : i \in DOMAIN cs}

\* The sort compares names only for equality, so every input is, up to a
\* renaming of the packages, one whose contract names appear in the order
\* "a", "b", "c" of their first use.
NameRank(n) == CASE n = "a" -> 1 [] n = "b" -> 2 [] OTHER -> 3

NamesInOrderOfFirstUse(cs) ==
    \A i \in DOMAIN cs : \A m \in Names :
        NameRank(m) < NameRank(cs[i].name) => \E j \in 1..(i - 1) : cs[j].name = m

SortFairInit ==
    /\ contracts \in {cs \in ContractLists : NamesInOrderOfFirstUse(cs)}
    /\ dependency_map = <<>>
    /\ sorted = <<>>
    /\ remaining = <<>>
    /\ passes = 0
    /\ sortPc = "start"
    /\ GuardIdle
    /\ DeployIdle
    /\ AbiIdle
    /\ XferIdle
    /\ BuildIdle
    /\ DiscIdle
    /\ GasIdle
    /\ CallIdle

\* The sort under fair scheduling: a call that has started keeps running.
SortFairSpec == SortFairInit /\ [][SortNext]_vars /\ WF_vars(SortNext)

\* C25: each pass moves at least one contract out of `remaining` or returns
\* the CyclicDependency error, there are at most as many passes as contracts,
\* and the sort returns.
C25_SortTerminatesWithinLenPasses ==
    /\ [][SortPass => \/ Len(remaining') < Len(remaining)
                      \/ sortPc' = "err"]_vars
    /\ [](passes <= Len(contracts))
    /\ <>(sortPc \in {"ok", "err"})

\* The sort needed as many passes as there are contracts, each moving one.
C25_Witness ==
    /\ sortPc = "ok"
    /\ Len(contracts) = MaxContracts
    /\ passes = MaxContracts

\* C22: when some dependency list names a contract that is not among the
\* generated contracts, the sort ends with the MissingDeployableDependency
\* error naming such a dependency, not with CyclicDependency.
C22_UnresolvedDepIsMissingDependencyError ==
    sortPc \in {"ok", "err"} /\ UnresolvedDeps(contracts) # {} =>
        /\ SortError.kind = "MissingDeployableDependency"
        /\ SortError.dep \in UnresolvedDeps(contracts)

(***************************************************************************)
(* Deployable::deploy                                                      *)
(***************************************************************************)

\* The byte strings over `bytes` of length at most n.
RECURSIVE ByteStrings(_, _)
ByteStrings(bytes, n) ==
    IF n = 0 THEN {<<>>}
    ELSE LET shorter == ByteStrings(bytes, n - 1)
         IN  shorter \cup {Append(b, x) : b \in shorter, x \in bytes}

\* What Self::bytecode() may return, and the constructor arguments.
Bytecodes == ByteStrings({0, 255}, MaxCodeLen)
ConstructorArgs == {Address(1), Uint(2)}

\* U32::from(bytecode.len()).to_be_bytes_vec(): the length in 4 bytes.
Codesize(bytecode) == LimbToBeBytes(Len(bytecode), 4)

\* A plausible slip: the constructor arguments before the bytecode.
InitCodeArgsFirst(bytecode, encoded_args) ==
    <<255>> \o Codesize(bytecode) \o encoded_args \o bytecode

\* init_code as deploy builds it, push by push.
InitCode(bytecode, encoded_args) ==
    LET pushed == <<255>>
        with_size == pushed \o Codesize(bytecode)
        with_code == with_size \o bytecode
    IN  with_code \o encoded_args

\* create(value, data_offset, data_size): one Create syscall. The buffer at
\* data_offset is recorded by its contents; `bytecode` and `args` are history.
Create(value, data, data_size, bytecode, args) ==
    [value |-> value, data |-> data, size |-> data_size,
     bytecode |-> bytecode, args |-> args]

\* Deployable::deploy(args).
Deploy(bytecode, args) ==
    /\ deploys < MaxDeploys
    /\ LET encoded_args == AbiEncode(args)
           init_code == InitCode(bytecode, encoded_args)
           size == Len(init_code)
       IN  creates' = Append(creates, Create(0, init_code, size, bytecode, args))
    /\ deploys' = deploys + 1
    /\ UNCHANGED deployOthers

DeployInit ==
    /\ DeployIdle
    /\ AbiIdle
    /\ XferIdle
    /\ SortIdle
    /\ GuardIdle
    /\ BuildIdle
    /\ DiscIdle
    /\ GasIdle
    /\ CallIdle

DeployNext ==
    \E bytecode \in Bytecodes, args \in ConstructorArgs : Deploy(bytecode, args)

DeploySpec == DeployInit /\ [][DeployNext]_vars

\* C11: every deploy has issued exactly one Create, with value 0 and a buffer of
\* 0xFF, the 4-byte big-endian length of the bytecode, the bytecode and the ABI
\* encoding of the arguments, of size 1 + 4 + len(bytecode) + len(abi(args)).
C11_DeployPacksInitCode ==
    /\ Len(creates) = deploys
    /\ \A i \in DOMAIN creates :
           LET c == creates[i]
               n == Len(c.bytecode)
               abi == AbiEncode(c.args)
           IN  /\ c.value = 0
               /\ c.size = 1 + 4 + n + Len(abi)
               /\ Len(c.data) = c.size
               /\ c.data[1] = 255
               /\ LimbFromBeBytes(SubSeq(c.data, 2, 5)) = n
               /\ SubSeq(c.data, 6, 5 + n) = c.bytecode
               /\ SubSeq(c.data, 6 + n, c.size) = abi

\* A non-empty bytecode has been deployed.
C11_Witness ==
    \E i \in DOMAIN creates : Len(creates[i].bytecode) = MaxCodeLen

(***************************************************************************)
(* main of r55-compile: sort, then the loop over the sorted contracts      *)
(***************************************************************************)

\* The generated contracts a build run sorts. build_dependency_list leaves a
\* contract's own name out of its deps; the names need not be distinct.
BuildNames == {"a", "b"}
BuildContract == {c \in [name : BuildNames, deps : SUBSET BuildNames] : c.name \notin c.deps}
BuildContractLists == UNION {[1..n -> BuildContract] : n \in 0..MaxContracts}

\* What `cargo build` leaves in target/.../release/{runtime,deploy}: an ELF file.
ElfMagic == <<127, 69, 76, 70>>
CargoOutputs == {ElfMagic, ElfMagic \o <<0>>}

\* `Compile each contract in order`: the loop takes the next contract, or main
\* returns Ok(()) when there is none left.
NextContract(idx) ==
    IF idx < Len(sorted)
    THEN buildPc' = "glue_temp" /\ buildIdx' = idx + 1
    ELSE buildPc' = "done" /\ buildIdx' = idx

\* `let sorted_contracts = sort_generated_contracts(generated_contracts)?;`
\* returned Ok: the loop starts.
BuildLoopStart ==
    /\ buildPc = "sort"
    /\ sortPc = "ok"
    /\ NextContract(0)
    /\ UNCHANGED <<written, glue, runtimeBlob, deployBlob>>
    /\ UNCHANGED <<sortVars, buildOthers>>

\* The same line when the sort returned Err: `?` makes main return it.
BuildSortErr ==
    /\ buildPc = "sort"
    /\ sortPc = "err"
    /\ buildPc' = "failed"
    /\ UNCHANGED <<buildIdx, written, glue, runtimeBlob, deployBlob>>
    /\ UNCHANGED <<sortVars, buildOthers>>

\* generate_deployable(contract, target_source): nothing for a contract without
\* deps; otherwise one deployable.rs with an include_bytes! of
\* r55-output-bytecode/<dep>.bin for every dep. `present` is history: the bin
\* files this run had written when the file was generated. fs::write may fail.
GenerateDeployable(target_source, pc, next) ==
    /\ buildPc = pc
    /\ LET contract == sorted[buildIdx]
       IN  IF contract.deps = {}
           THEN buildPc' = next /\ glue' = glue
           ELSE \/ /\ glue' = glue \cup {[contract |-> buildIdx,
                                          target_source |-> target_source,
                                          includes |-> contract.deps,
                                          present |-> DOMAIN written]}
                   /\ buildPc' = next
                \/ /\ buildPc' = "failed"
                   /\ glue' = glue
    /\ UNCHANGED <<buildIdx, written, runtimeBlob, deployBlob>>
    /\ UNCHANGED <<sortVars, buildOthers>>

\* compile_runtime: cargo builds the `runtime` bin and the file is read back
\* as it is; a nonzero exit status ends the process with exit(1).
CompileRuntime ==
    /\ buildPc = "runtime"
    /\ \/ \E bytecode \in CargoOutputs :
              /\ runtimeBlob' = bytecode
              /\ buildPc' = "deploy"
       \/ /\ buildPc' = "failed"
          /\ runtimeBlob' = runtimeBlob
    /\ UNCHANGED <<buildIdx, written, glue, deployBlob>>
    /\ UNCHANGED <<sortVars, buildOthers>>

\* compile_deploy: the same for the `deploy` bin.
CompileDeploy ==
    /\ buildPc = "deploy"
    /\ \/ \E bytecode \in CargoOutputs :
              /\ deployBlob' = bytecode
              /\ buildPc' = "write"
       \/ /\ buildPc' = "failed"
          /\ deployBlob' = deployBlob
    /\ UNCHANGED <<buildIdx, written, glue, runtimeBlob>>
    /\ UNCHANGED <<sortVars, buildOthers>>

\* `let mut prefixed_bytecode = vec![0xff]; extend_from_slice(&bytecode)`.
PrefixedBytecode(bytecode) == <<255>> \o bytecode

\* fs::write(output_dir.join("<name>.bin"), deploy_bytecode): a file of that
\* name is replaced.
FsWrite(dir, name, bytes) ==
    [n \in DOMAIN dir \cup {name} |-> IF n = name THEN bytes ELSE dir[n]]

\* The end of compile() and the write of the bin file; then the next contract.
WriteBin ==
    /\ buildPc = "write"
    /\ \/ /\ written' = FsWrite(written, sorted[buildIdx].name, PrefixedBytecode(deployBlob))
          /\ NextContract(buildIdx)
       \/ /\ buildPc' = "failed"
          /\ UNCHANGED <<buildIdx, written>>
    /\ UNCHANGED <<glue, runtimeBlob, deployBlob>>
    /\ UNCHANGED <<sortVars, buildOthers>>

\* A build run from the generated contracts on.
BuildInit ==
    /\ contracts \in BuildContractLists
    /\ dependency_map = <<>>
    /\ sorted = <<>>
    /\ remaining = <<>>
    /\ passes = 0
    /\ sortPc = "start"
    /\ BuildIdle
    /\ DiscIdle
    /\ GasIdle
    /\ CallIdle
    /\ GuardIdle
    /\ DeployIdle
    /\ AbiIdle
    /\ XferIdle

BuildNext ==
    \/ SortStart
    \/ SortPass
    \/ SortReturnOk
    \/ BuildLoopStart
    \/ BuildSortErr
    \/ GenerateDeployable(TRUE, "glue_temp", "glue_work")
    \/ GenerateDeployable(FALSE, "glue_work", "runtime")
    \/ CompileRuntime
    \/ CompileDeploy
    \/ WriteBin

BuildSpec == BuildInit /\ [][BuildNext]_vars

\* C12: every blob the build produces starts with 0xFF: the bin files written,
\* the initcode of every deploy, and the runtime blob of every compilation.
C12_EveryBlobStartsWithFF ==
    /\ \A n \in DOMAIN written : written[n][1] = 255
    /\ \A i \in DOMAIN creates : creates[i].data[1] = 255
    /\ Len(runtimeBlob) > 0 => runtimeBlob[1] = 255

\* C13: for every contract C and every dependency D of C, D's bin file has been
\* written before C's deployable.rs (which includes D's bin) is generated and
\* before any compilation of C starts.
C13_DepsBinsWrittenBeforeGlueAndCompile ==
    /\ \A g \in glue : g.includes \subseteq g.present
    /\ buildPc \in {"runtime", "deploy", "write"} =>
           sorted[buildIdx].deps \subseteq DOMAIN written

\* C14: when a build run has failed, no bin file written by that run remains in
\* the output directory.
C14_FailedBuildLeavesNoBin ==
    buildPc = "failed" => DOMAIN written = {}

(***************************************************************************)
(* main of r55-compile: discovery and temporary crates                     *)
(***************************************************************************)

\* A candidate project: a subdirectory of examples/ with a Cargo.toml.
\*   dir             the directory name
\*   manifest        "unparsable" (toml::from_str fails), "no_name" (no
\*                   package.name) or "ok"
\*   package_name    package.name of an "ok" manifest
\*   deployable_deps the dependencies carrying the `deployable` feature
\*   lib_rs          whether src/lib.rs exists
\*   lib_contracts   number of #[contract] impl blocks in lib.rs
\*   modules         the `mod m;` declarations of lib.rs in the order the
\*                   HashSet yields them, each with the layout of its file
\*                   ("file": src/m.rs, "mod_rs": src/m/mod.rs only, "none")
\*                   and the number of #[contract] impl blocks in it
DirNames == {"p", "q"}
ModuleDecl ==
    {m \in [name : {"m"}, layout : {"file", "mod_rs", "none"}, contracts : 0..2] :
        m.layout # "file" => m.contracts = 0}
ModuleLists == {<<>>} \cup {<<m>> : m \in ModuleDecl}
Candidate(dir) ==
    {c \in [dir : {dir}, manifest : {"unparsable", "no_name", "ok"},
            package_name : {dir, "p-m"}, deployable_deps : {{}, {"p-m"}},
            lib_rs : BOOLEAN, lib_contracts : 0..1, modules : ModuleLists] :
        /\ c.manifest # "ok" =>
               /\ c.package_name = dir /\ c.deployable_deps = {}
               /\ c.lib_rs /\ c.lib_contracts = 0 /\ c.modules = <<>>
        /\ ~c.lib_rs => c.lib_contracts = 0 /\ c.modules = <<>>}

\* The examples directory as read_dir lists it: distinct directories, any order.
Listings ==
    {<<>>}
        \cup UNION {{<<c>> : c \in Candidate(d)} : d \in DirNames}
        \cup UNION {{<<c1, c2>> : c1 \in Candidate(d[1]), c2 \in Candidate(d[2])} :
                        d \in {e \in DirNames \X DirNames : e[1] # e[2]}}

\* format!("{}-{}", example_name, module_name).
GeneratedPkgName(example_name, module_name) == example_name \o "-" \o module_name

\* One ContractTarget per #[contract] impl block of a file: `n` blocks.
ContractTargets(n, module, generated_package) ==
    [k \in 1..n |-> [ident |-> k, module |-> module,
                     generated_package |-> generated_package]]

\* `for module_name in &module_names`: a module without a file is skipped, the
\* file read is of src/<module>.rs even when only src/<module>/mod.rs exists
\* (an io error), and every #[contract] impl block pushes a target.
RECURSIVE ModuleTargets(_, _, _, _)
ModuleTargets(example_name, modules, i, targets) ==
    IF i > Len(modules) THEN [ok |-> TRUE, targets |-> targets]
    ELSE LET module == modules[i]
         IN  IF module.layout = "none"
             THEN ModuleTargets(example_name, modules, i + 1, targets)
             ELSE IF module.layout = "mod_rs"
             THEN [ok |-> FALSE, err |-> "IoError"]
             ELSE ModuleTargets(example_name, modules, i + 1,
                      targets \o ContractTargets(module.contracts, module.name,
                                     GeneratedPkgName(example_name, module.name)))

\* The package name of a contract found in lib.rs itself.
LibPackageName(example_name, base_package_name) == base_package_name

\* parse_contract_project.
ParseContractProject(c) ==
    LET example_name == c.dir
        base_package_name == c.package_name
    IN  IF c.manifest = "unparsable" THEN [ok |-> FALSE, err |-> "TomlError"]
        ELSE IF c.manifest = "no_name" THEN [ok |-> FALSE, err |-> "PathError"]
        ELSE IF ~c.lib_rs THEN [ok |-> FALSE, err |-> "PathError"]
        ELSE LET in_modules == ModuleTargets(example_name, c.modules, 1, <<>>)
             IN  IF ~in_modules.ok THEN in_modules
                 ELSE LET targets ==
                              IF in_modules.targets = <<>>
                              THEN ContractTargets(c.lib_contracts, "",
                                       LibPackageName(example_name, base_package_name))
                              ELSE in_modules.targets
                      IN  IF targets = <<>>
                          THEN [ok |-> FALSE, err |-> "NoContractFound"]
                          ELSE [ok |-> TRUE,
                                project |-> [path |-> c.dir, name |-> example_name,
                                             targets |-> targets,
                                             deployable_deps |-> c.deployable_deps]]

\* One entry of the loop of find_r55_contract_projects: a project that parses
\* is pushed, one that does not is logged at debug level and skipped.
FindEntry ==
    /\ discPc = "find"
    /\ findIdx < Len(entries)
    /\ LET parsed == ParseContractProject(entries[findIdx + 1])
       IN  examples' = IF parsed.ok THEN Append(examples, parsed.project) ELSE examples
    /\ findIdx' = findIdx + 1
    /\ UNCHANGED <<entries, discPc>>
    /\ UNCHANGED <<sortVars, buildVars, discOthers>>

\* build_dependency_list: the project's deployable deps but the target itself.
BuildDependencyList(project, target) ==
    project.deployable_deps \ {target.generated_package}

\* temp_dir.join(&project.name).join(&target.module).
TargetTempDir(project, target) == <<project.name, target.module>>

\* generate_temporary_crates: one GeneratedContract per target of every project.
RECURSIVE GenerateTemporaryCrates(_, _, _)
GenerateTemporaryCrates(projects, i, generated_contracts) ==
    IF i > Len(projects) THEN generated_contracts
    ELSE LET project == projects[i]
             of_project ==
                 [k \in DOMAIN project.targets |->
                     [path |-> TargetTempDir(project, project.targets[k]),
                      name |-> project.targets[k].generated_package,
                      deps |-> BuildDependencyList(project, project.targets[k]),
                      original_source_path |-> project.path]]
         IN  GenerateTemporaryCrates(projects, i + 1, generated_contracts \o of_project)

\* find_r55_contract_projects returns Ok(examples) once every entry is handled;
\* main generates the temporary crates and calls the sort on them. A failing
\* fs call in the generation makes main return the error.
MainGenerate ==
    /\ discPc = "find"
    /\ findIdx = Len(entries)
    /\ \/ /\ contracts' = GenerateTemporaryCrates(examples, 1, <<>>)
          /\ sortPc' = "start"
          /\ discPc' = "sort"
          /\ UNCHANGED buildPc
       \/ /\ examples # <<>>
          /\ discPc' = "failed"
          /\ buildPc' = "failed"
          /\ UNCHANGED <<contracts, sortPc>>
    /\ UNCHANGED <<dependency_map, sorted, remaining, passes>>
    /\ UNCHANGED <<buildIdx, written, glue, runtimeBlob, deployBlob>>
    /\ UNCHANGED <<entries, findIdx, examples>>
    /\ UNCHANGED discOthers

\* A whole run of main over an examples directory.
MainInit ==
    /\ entries \in Listings
    /\ findIdx = 0
    /\ examples = <<>>
    /\ discPc = "find"
    /\ contracts = <<>>
    /\ dependency_map = <<>>
    /\ sorted = <<>>
    /\ remaining = <<>>
    /\ passes = 0
    /\ sortPc = "wait"
    /\ BuildIdle
    /\ GuardIdle
    /\ DeployIdle
    /\ AbiIdle
    /\ XferIdle
    /\ GasIdle
    /\ CallIdle

MainNext ==
    \/ FindEntry
    \/ MainGenerate
    \/ BuildNext

MainSpec == MainInit /\ [][MainNext]_vars

\* The candidate project in directory `dir`.
EntryOf(dir) == entries[CHOOSE i \in DOMAIN entries : entries[i].dir = dir]

\* The targets of the project pr that lie in `module` and are named `name`.
TargetsNamed(pr, module, name) ==
    {k \in DOMAIN pr.targets :
        pr.targets[k].module = module /\ pr.targets[k].generated_package = name}

\* C15: the build never completes successfully while a candidate project is
\* present whose manifest cannot be parsed or lacks package.name, or that lacks
\* src/lib.rs.
C15_BrokenCandidateFailsBuild ==
    buildPc = "done" =>
        \A i \in DOMAIN entries : entries[i].manifest = "ok" /\ entries[i].lib_rs

\* C18: for a project named P, every #[contract] impl block of a module M is a
\* target with generated package name P-M, and every #[contract] impl block of
\* lib.rs is a target with generated package name P.
C18_TargetPackageNames ==
    \A e \in DOMAIN examples :
        LET pr == examples[e]
            c == EntryOf(pr.path)
        IN  /\ \A m \in DOMAIN c.modules :
                   c.modules[m].layout = "file" =>
                       Cardinality(TargetsNamed(pr, c.modules[m].name,
                                       pr.name \o "-" \o c.modules[m].name))
                           = c.modules[m].contracts
            /\ Cardinality(TargetsNamed(pr, "", pr.name)) = c.lib_contracts

\* C19: after a successful build distinct targets have distinct generated
\* package names and distinct temporary build directories, and the output
\* directory holds one bin file per target.
C19_OneBinPerTarget ==
    buildPc = "done" =>
        /\ \A i, j \in DOMAIN contracts :
               i # j => /\ contracts[i].name # contracts[j].name
                        /\ contracts[i].path # contracts[j].path
        /\ Cardinality(DOMAIN written) = Len(contracts)

(***************************************************************************)
(* syscall_gas: the host's gas accounting for syscalls                     *)
(***************************************************************************)

\* Standard EVM operation costs.
SLOAD_COLD == 2100
SLOAD_WARM == 100
SSTORE_COLD == 2200
SSTORE_WARM == 100

\* The gas limits of the frames of the model, and the slots of the contract.
GasLimits == {0, SLOAD_WARM, SLOAD_WARM + SSTORE_WARM, SLOAD_COLD, SSTORE_COLD,
              SLOAD_COLD + SSTORE_COLD}
HostSlots == {0, 1}

\* Gas::spent().
Spent(g) == g.limit - g.remaining

\* Gas::record_cost(cost): false, and nothing recorded, when the cost exceeds
\* what remains.
RecordCost(g, cost) ==
    IF cost > g.remaining
    THEN [success |-> FALSE, gas |-> g]
    ELSE [success |-> TRUE, gas |-> [g EXCEPT !.remaining = @ - cost]]

\* A plausible slip: no early return when record_cost fails.
SyscallGasNoReturn(interpreter_gas, gas_cost) ==
    [returns |-> FALSE, gas |-> RecordCost(interpreter_gas, gas_cost).gas,
     action |-> [result |-> "Continue", output |-> <<>>]]

\* The macro syscall_gas!(interpreter, gas_cost): `returns` says whether the
\* enclosing handler returns the action at once.
SyscallGas(interpreter_gas, gas_cost) ==
    LET recorded == RecordCost(interpreter_gas, gas_cost)
    IN  IF ~recorded.success
        THEN [returns |-> TRUE, gas |-> recorded.gas,
              action |-> [result |-> "OutOfGas", output |-> <<>>]]
        ELSE [returns |-> FALSE, gas |-> recorded.gas,
              action |-> [result |-> "Continue", output |-> <<>>]]

\* The host serving one storage syscall: the charge first, the operation after.
HostSyscall(op, slot, value, gas_cost) ==
    /\ action.result = "Continue"
    /\ Len(gasLog) < MaxSyscalls
    /\ LET charged == SyscallGas(gas, gas_cost)
       IN  /\ gas' = charged.gas
           /\ action' = charged.action
           /\ hostStorage' = IF charged.returns \/ op = "SLOAD"
                             THEN hostStorage
                             ELSE [hostStorage EXCEPT ![slot] = value]
    /\ gasLog' = Append(gasLog, [op |-> op, cost |-> gas_cost])
    /\ UNCHANGED gasOthers

HostSLoad(slot, gas_cost) == HostSyscall("SLOAD", slot, 0, gas_cost)
HostSStore(slot, value, gas_cost) == HostSyscall("SSTORE", slot, value, gas_cost)

GasInit ==
    /\ \E limit \in GasLimits : gas = [limit |-> limit, remaining |-> limit]
    /\ action = [result |-> "Continue", output |-> <<>>]
    /\ hostStorage = [slot \in HostSlots |-> 0]
    /\ gasLog = <<>>
    /\ SortIdle
    /\ GuardIdle
    /\ DeployIdle
    /\ AbiIdle
    /\ XferIdle
    /\ BuildIdle
    /\ DiscIdle
    /\ CallIdle

GasNext ==
    \/ \E slot \in HostSlots, cost \in {SLOAD_COLD, SLOAD_WARM} : HostSLoad(slot, cost)
    \/ \E slot \in HostSlots, value \in Values, cost \in {SSTORE_COLD, SSTORE_WARM} :
           HostSStore(slot, value, cost)

GasSpec == GasInit /\ [][GasNext]_vars

RetSizes == 0..(32 * MaxChunks + 1)
RetSizeArgs == {[some |-> FALSE, size |-> 0]} \cup {[some |-> TRUE, size |-> n] : n \in RetSizes}

\* The syscall the function starts with: call(..) or staticcall(..).
FirstSyscall(fn) == IF fn = "call_contract" THEN "Call" ELSE "StaticCall"

\* One ecall. dest_offset is kept relative to ret_data.as_ptr().
Ecall(nr, dest_offset, res_offset, res_size) ==
    [nr |-> nr, dest_offset |-> dest_offset, res_offset |-> res_offset,
     res_size |-> res_size]

\* `call(addr, value, data.as_ptr(), data.len())`, resp. staticcall.
IssueCall ==
    /\ callPc = "call"
    /\ syscalls' = Append(syscalls, Ecall(FirstSyscall(callArgs.fn), 0, 0, 0))
    /\ callPc' = "ret_size"
    /\ UNCHANGED <<callArgs, returnData, callLocals, callResult, handle, ret_data>>
    /\ UNCHANGED callOthers

\* A plausible slip: a last partial chunk is copied too.
ChunksRoundedUp(ret_size) == (ret_size + 31) \div 32

\* `ret_size / 32`.
Chunks(ret_size) == ret_size \div 32

\* `match ret_size { Some(size) => size, None => return_data_size() }`, then
\* `if ret_size == 0 { return Some(Bytes::default()) }` and the allocation.
ResolveRetSize ==
    /\ callPc = "ret_size"
    /\ LET ret_size == IF callArgs.ret_size.some THEN callArgs.ret_size.size
                       ELSE returnData
       IN  /\ syscalls' = IF callArgs.ret_size.some THEN syscalls
                          ELSE Append(syscalls, Ecall("ReturnDataSize", 0, 0, 0))
           /\ callLocals' = [ret_size |-> ret_size, i |-> 0]
           /\ callPc' = IF ret_size = 0 THEN "returned" ELSE "copy"
           /\ callResult' = 0
           /\ ret_data' = [k \in 1..ret_size |-> 0]
    /\ UNCHANGED <<callArgs, returnData, handle>>
    /\ UNCHANGED callOthers

\* The return data the callee left on the host: returnData bytes, none of
\* them zero, so that a copied byte differs from one of the zeroed buffer.
ReturnDataBytes == [k \in 1..returnData |-> ((k - 1) % 255) + 1]

\* What the host's ReturnDataCopy can hand over for (res_offset, res_size):
\* the bytes of the return data; for a range that leaves the return data,
\* either a trap or the bytes there are, padded with zeros.
HostReturnDataCopy(res_offset, res_size) ==
    LET bytes == [k \in 1..res_size |->
                     IF res_offset + k <= returnData
                     THEN ReturnDataBytes[res_offset + k] ELSE 0]
    IN  IF res_offset + res_size <= returnData
        THEN {[trap |-> FALSE, bytes |-> bytes]}
        ELSE {[trap |-> FALSE, bytes |-> bytes], [trap |-> TRUE, bytes |-> <<>>]}

\* A plausible slip: chunks that overlap.
StepHalf(i) == i * 16

\* `let step = i * 32;`
Step(i) == i * 32

\* One turn of `for i in 0..chuncks`: return_data_copy(offset + step, step, 32).
CopyChunk ==
    /\ callPc = "copy"
    /\ callLocals.i < Chunks(callLocals.ret_size)
    /\ LET step == Step(callLocals.i)
       IN  /\ syscalls' = Append(syscalls, Ecall("ReturnDataCopy", step, step, 32))
           /\ \E got \in HostReturnDataCopy(step, 32) :
                  IF got.trap
                  THEN /\ callPc' = "trapped"
                       /\ UNCHANGED ret_data
                  ELSE /\ callPc' = callPc
                       /\ ret_data' = [k \in 1..Len(ret_data) |->
                              IF k > step /\ k <= step + 32
                              THEN got.bytes[k - step] ELSE ret_data[k]]
    /\ callLocals' = [callLocals EXCEPT !.i = @ + 1]
    /\ UNCHANGED <<callArgs, returnData, callResult, handle>>
    /\ UNCHANGED callOthers

\* `Some(Bytes::from(ret_data))`.
CallReturn ==
    /\ callPc = "copy"
    /\ callLocals.i = Chunks(callLocals.ret_size)
    /\ callResult' = callLocals.ret_size
    /\ callPc' = "returned"
    /\ UNCHANGED <<callArgs, returnData, callLocals, syscalls, handle, ret_data>>
    /\ UNCHANGED callOthers

CallInit ==
    /\ callArgs \in [fn : {"call_contract", "staticcall_contract"}, ret_size : RetSizeArgs]
    /\ returnData \in RetSizes
    /\ callPc = "call"
    /\ callLocals = [ret_size |-> 0, i |-> 0]
    /\ callResult = 0
    /\ syscalls = <<>>
    /\ handle = [view |-> "none", ctx |-> "none", method |-> "none"]
    /\ ret_data = <<>>
    /\ SortIdle
    /\ GuardIdle
    /\ DeployIdle
    /\ AbiIdle
    /\ XferIdle
    /\ BuildIdle
    /\ DiscIdle
    /\ GasIdle

CallNext ==
    \/ IssueCall
    \/ ResolveRetSize
    \/ CopyChunk
    \/ CallReturn

CallSpec == CallInit /\ [][CallNext]_vars

\* The positions of the syscalls numbered nr.
SyscallsNumbered(nr) == {p \in DOMAIN syscalls : syscalls[p].nr = nr}

\* C20: a finished call_contract (staticcall_contract) has issued, in this
\* order: one Call (StaticCall); one ReturnDataSize iff no ret_size was given;
\* then floor(ret_size / 32) ReturnDataCopy, the i-th of 32 bytes from return
\* data offset 32*i to buffer offset 32*i; with ret_size = 0 no copy, and empty
\* bytes are returned.
C20_CallSyscallSequence ==
    callPc = "returned" =>
        LET ret_size == IF callArgs.ret_size.some THEN callArgs.ret_size.size
                        ELSE returnData
            head == IF callArgs.ret_size.some THEN 1 ELSE 2
            first == IF callArgs.fn = "call_contract" THEN "Call" ELSE "StaticCall"
            other == IF callArgs.fn = "call_contract" THEN "StaticCall" ELSE "Call"
        IN  /\ SyscallsNumbered(first) = {1}
            /\ SyscallsNumbered(other) = {}
            /\ SyscallsNumbered("ReturnDataSize")
                   = IF callArgs.ret_size.some THEN {} ELSE {2}
            /\ Len(syscalls) = head + ret_size \div 32
            /\ \A i \in 0..(ret_size \div 32 - 1) :
                   /\ syscalls[head + 1 + i].nr = "ReturnDataCopy"
                   /\ syscalls[head + 1 + i].res_offset = 32 * i
                   /\ syscalls[head + 1 + i].dest_offset = 32 * i
                   /\ syscalls[head + 1 + i].res_size = 32
            /\ ret_size = 0 => callResult = 0

\* A call without ret_size whose return data fills MaxChunks chunks and a rest.
C20_Witness ==
    /\ callPc = "returned"
    /\ ~callArgs.ret_size.some
    /\ returnData = 32 * MaxChunks + 1
    /\ Len(syscalls) = 2 + MaxChunks

(***************************************************************************)
(* Interface handles: the call context of a peer call                      *)
(***************************************************************************)

\* The context types and the marker traits of call.rs.
CallCtxs == {"StaticCtx", "MutableCtx"}

\* A plausible slip: every context implements every marker trait.
ImplementsAll(ctx) == {"CallCtx", "StaticCallCtx", "MutableCallCtx"}

\* The `impl .. for ..` lines: the marker traits a context type implements.
Implements(ctx) ==
    IF ctx = "StaticCtx" THEN {"CallCtx", "StaticCallCtx"}
    ELSE {"CallCtx", "MutableCallCtx"}

\* The self views a handler can hold: `&self` and `&mut self`.
SelfViews == {"shared", "mutable"}

\* `with_ctx(self)`: the context a handle gets from the caller's self view.
WithCtx(view) == IF view = "mutable" THEN "MutableCtx" ELSE "StaticCtx"

\* The methods of IERC20 the handlers of ERC20x invoke.
PeerMethods == {"balance_of", "mint", "transfer_from"}

\* The peer's methods that take `&mut self`.
Mutating(method) == method \in {"mint", "transfer_from"}

\* The bound on the context of the impl block that carries the method's stub.
RequiredTrait(method) == IF Mutating(method) THEN "MutableCallCtx" ELSE "CallCtx"

\* `let token = IERC20::new(token_addr).with_ctx(self);` in a handler holding
\* the given self view.
NewHandle ==
    /\ callPc = "idle"
    /\ handle.view = "none"
    /\ \E view \in SelfViews :
           handle' = [view |-> view, ctx |-> WithCtx(view), method |-> "none"]
    /\ UNCHANGED <<callArgs, returnData, callPc, callLocals, callResult, syscalls, ret_data>>
    /\ UNCHANGED callOthers

\* `token.method(..)`: compiles only if the handle's context implements the
\* trait the method's impl block asks for; the stub then enters call_contract
\* for a mutating method and staticcall_contract for a read-only one.
InvokeMethod ==
    /\ callPc = "idle"
    /\ handle.view # "none"
    /\ \E method \in PeerMethods, ret_size \in RetSizeArgs :
           /\ RequiredTrait(method) \in Implements(handle.ctx)
           /\ handle' = [handle EXCEPT !.method = method]
           /\ callArgs' = [fn |-> IF Mutating(method) THEN "call_contract"
                                  ELSE "staticcall_contract",
                           ret_size |-> ret_size]
    /\ callPc' = "call"
    /\ UNCHANGED <<returnData, callLocals, callResult, syscalls, ret_data>>
    /\ UNCHANGED callOthers

PeerInit ==
    /\ callArgs = [fn |-> "none", ret_size |-> [some |-> FALSE, size |-> 0]]
    /\ returnData \in RetSizes
    /\ callPc = "idle"
    /\ callLocals = [ret_size |-> 0, i |-> 0]
    /\ callResult = 0
    /\ syscalls = <<>>
    /\ handle = [view |-> "none", ctx |-> "none", method |-> "none"]
    /\ ret_data = <<>>
    /\ SortIdle
    /\ GuardIdle
    /\ DeployIdle
    /\ AbiIdle
    /\ XferIdle
    /\ BuildIdle
    /\ DiscIdle
    /\ GasIdle

PeerNext ==
    \/ NewHandle
    \/ InvokeMethod
    \/ IssueCall
    \/ ResolveRetSize
    \/ CopyChunk
    \/ CallReturn

PeerSpec == PeerInit /\ [][PeerNext]_vars

\* C17: a mutating peer method is only ever invoked through a handle with the
\* mutable context, made while the caller held a mutable self view; a handle
\* made from a shared self view has the read-only context and issues no Call,
\* only StaticCall.
C17_MutatingPeerCallNeedsMutableSelf ==
    /\ handle.view = "shared" => handle.ctx = "StaticCtx"
    /\ handle.ctx = "MutableCtx" => handle.view = "mutable"
    /\ handle.method # "none" /\ Mutating(handle.method) =>
           handle.ctx = "MutableCtx" /\ handle.view = "mutable"
    /\ handle.ctx = "StaticCtx" =>
           /\ SyscallsNumbered("Call") = {}
           /\ callPc \in {"ret_size", "copy", "returned"} =>
                  SyscallsNumbered("StaticCall") = {1}

\* A handler with a shared self view has finished a peer call.
C17_Witness ==
    /\ handle.view = "shared"
    /\ handle.method = "balance_of"
    /\ callPc = "returned"
    /\ syscalls[1].nr = "StaticCall"

\* C21: with ret_size > 0 and return data of at least ret_size bytes, the
\* function returns exactly ret_size bytes: the first 32 * floor(ret_size / 32)
\* are those of the return data, the remaining ret_size mod 32 are zero.
C21_RemainderBeyondLastChunkIsZero ==
    callPc = "returned" /\ callLocals.ret_size > 0
                        /\ returnData >= callLocals.ret_size =>
        /\ callResult = callLocals.ret_size
        /\ Len(ret_data) = callLocals.ret_size
        /\ \A k \in 1..callLocals.ret_size :
               ret_data[k] = IF k <= 32 * (callLocals.ret_size \div 32)
                             THEN ReturnDataBytes[k] ELSE 0

\* A call that asked for one byte more than MaxChunks chunks and got them all
\* but the last byte.
C21_Witness ==
    /\ callPc = "returned"
    /\ callArgs.ret_size = [some |-> TRUE, size |-> 32 * MaxChunks + 1]
    /\ returnData = 32 * MaxChunks + 1
    /\ Len(ret_data) = 32 * MaxChunks + 1
    /\ ret_data[32 * MaxChunks] # 0
    /\ ret_data[32 * MaxChunks + 1] = 0

(***************************************************************************)
(* Addresses in registers: call, staticcall and create                     *)
(***************************************************************************)

\* The addresses of the model: each group of four bytes is filled with one
\* byte. The all-zero address is among them.
AddressFills == {0, 1, 255}
AbiAddresses ==
    {[k \in 1..20 |-> fill[((k - 1) \div 4) + 1]] : fill \in [1..5 -> AddressFills]}

\* `addr.into_word()`: the address left-padded to the 32 bytes of a B256.
IntoWord(addr) == [k \in 1..12 |-> 0] \o addr

\* `U256::from(word).as_limbs()`: four u64, least significant first; each u64
\* is kept as its 8 big-endian bytes.
AsLimbs(word) ==
    <<SubSeq(word, 25, 32), SubSeq(word, 17, 24), SubSeq(word, 9, 16), SubSeq(word, 1, 8)>>

\* The registers a0, a1, a2 of call and staticcall: addr[0], addr[1], addr[2].
CallAddressRegs(addr) ==
    LET limbs == AsLimbs(IntoWord(addr))
    IN  <<limbs[1], limbs[2], limbs[3]>>

\* create: bytes[0..8] = first.to_be_bytes(), bytes[8..16] = second.to_be_bytes(),
\* bytes[16..20] = third.to_be_bytes()[..4].
CreateAddress(first, second, third) == first \o second \o SubSeq(third, 1, 4)

\* The address whose little-endian limbs are first, second, third: the inverse
\* of CallAddressRegs.
AddressOfLimbs(first, second, third) == SubSeq(third, 5, 8) \o second \o first

\* call(addr, ..) up to its ecall.
CallEcall ==
    /\ abiPc = "start"
    /\ abiRegs' = [nr |-> "Call", a |-> CallAddressRegs(abiAddr)]
    /\ abiPc' = "ecall"
    /\ UNCHANGED <<abiAddr, abiDecoded>>
    /\ UNCHANGED abiOthers

\* staticcall(addr, ..) up to its ecall.
StaticcallEcall ==
    /\ abiPc = "start"
    /\ abiRegs' = [nr |-> "StaticCall", a |-> CallAddressRegs(abiAddr)]
    /\ abiPc' = "ecall"
    /\ UNCHANGED <<abiAddr, abiDecoded>>
    /\ UNCHANGED abiOthers

\* create from its ecall on, handed the registers a call has filled.
CreateDecode ==
    /\ abiPc = "ecall"
    /\ abiDecoded' = CreateAddress(abiRegs.a[1], abiRegs.a[2], abiRegs.a[3])
    /\ abiPc' = "decoded"
    /\ UNCHANGED <<abiAddr, abiRegs>>
    /\ UNCHANGED abiOthers

AbiInit ==
    /\ abiAddr \in AbiAddresses
    /\ abiRegs = [nr |-> "none", a |-> <<>>]
    /\ abiDecoded = <<>>
    /\ abiPc = "start"
    /\ SortIdle
    /\ GuardIdle
    /\ DeployIdle
    /\ BuildIdle
    /\ DiscIdle
    /\ GasIdle
    /\ CallIdle
    /\ XferIdle

AbiNext ==
    \/ CallEcall
    \/ StaticcallEcall
    \/ CreateDecode

AbiSpec == AbiInit /\ [][AbiNext]_vars

\* C23: call and staticcall put the little-endian limbs of the address word in
\* a0..a2, a0 the least significant, and create reads a0..a2 the same way:
\* decoding a call's registers as create does gives the address back.
C23_AddressRoundTripsThroughRegisters ==
    /\ abiPc \in {"ecall", "decoded"} =>
           AddressOfLimbs(abiRegs.a[1], abiRegs.a[2], abiRegs.a[3]) = abiAddr
    /\ abiPc = "decoded" => abiDecoded = abiAddr

(***************************************************************************)
(* ERC20x::x_transfer_from                                                 *)
(***************************************************************************)

\* Addresses and amounts of the handler's arguments.
XAddresses == {1, 2}
XAmounts == 0..(MaxValue + 1)

\* Result<bool, ERC20Error>: Ok(value # 0), or Err(err(value)) for the two
\* variants that carry a maximum, or another variant of the error.
Ok(b) == [ok |-> TRUE, err |-> "none", value |-> IF b THEN 1 ELSE 0]
Err(err, max) == [ok |-> FALSE, err |-> err, value |-> max]
TransferResults ==
    {Ok(b) : b \in BOOLEAN}
        \cup {Err(e, max) : e \in {"InsufficientBalance", "InsufficientAllowance"},
                            max \in XAmounts}
        \cup {Err("ZeroAmount", 0)}

\* One `token.transfer_from(from, to, amount)` and what the token answered.
TransferFrom(from, to, amount, result) ==
    [from |-> from, to |-> to, amount |-> amount, result |-> result]

\* A plausible slip: only one of the two arms retries.
RetriesOnBalanceOnly(result) ==
    ~result.ok /\ result.err = "InsufficientBalance"

\* The first two arms of the match: Err(InsufficientBalance(max)) and
\* Err(InsufficientAllowance(max)).
Retries(result) ==
    ~result.ok /\ result.err \in {"InsufficientBalance", "InsufficientAllowance"}

\* `match token.transfer_from(from, to, amount)`: the scrutinee.
XFirstCall ==
    /\ xPc = "first"
    /\ \E result \in TransferResults :
           xCalls' = Append(xCalls,
               TransferFrom(xArgs.from, xArgs.sender, xArgs.amount, result))
    /\ xPc' = "match"
    /\ UNCHANGED <<xArgs, xResult>>
    /\ UNCHANGED xferOthers

\* `Err(..(max)) => token.transfer_from(from, to, max)`: the arm's value is
\* the handler's result.
XRetry ==
    /\ xPc = "match"
    /\ Retries(xCalls[1].result)
    /\ \E result \in TransferResults :
           /\ xCalls' = Append(xCalls,
                  TransferFrom(xArgs.from, xArgs.sender, xCalls[1].result.value, result))
           /\ xResult' = result
    /\ xPc' = "returned"
    /\ UNCHANGED xArgs
    /\ UNCHANGED xferOthers

\* `other => other`.
XReturnOther ==
    /\ xPc = "match"
    /\ ~Retries(xCalls[1].result)
    /\ xResult' = xCalls[1].result
    /\ xPc' = "returned"
    /\ UNCHANGED <<xArgs, xCalls>>
    /\ UNCHANGED xferOthers

\* x_transfer_from(from, amount, token_addr) called by `sender`.
XferInit ==
    /\ xArgs \in [from : XAddresses, sender : XAddresses, amount : XAmounts]
    /\ xCalls = <<>>
    /\ xPc = "first"
    /\ xResult = [ok |-> FALSE, err |-> "none", value |-> 0]
    /\ SortIdle
    /\ GuardIdle
    /\ DeployIdle
    /\ BuildIdle
    /\ DiscIdle
    /\ GasIdle
    /\ CallIdle
    /\ AbiIdle

XferNext ==
    \/ XFirstCall
    \/ XRetry
    \/ XReturnOther

XferSpec == XferInit /\ [][XferNext]_vars

\* C26: x_transfer_from calls transfer_from at most twice; it calls a second
\* time exactly when the first call returned InsufficientBalance(max) or
\* InsufficientAllowance(max), with the same from and to and the amount max,
\* and returns that call's result; any other first result is returned as is.
C26_AtMostOneRetryWithMax ==
    /\ Len(xCalls) <= 2
    /\ \A k \in DOMAIN xCalls :
           xCalls[k].from = xArgs.from /\ xCalls[k].to = xArgs.sender
    /\ Len(xCalls) >= 1 => xCalls[1].amount = xArgs.amount
    /\ Len(xCalls) = 2 =>
           /\ ~xCalls[1].result.ok
           /\ xCalls[1].result.err \in {"InsufficientBalance", "InsufficientAllowance"}
           /\ xCalls[2].amount = xCalls[1].result.value
    /\ xPc = "returned" =>
           /\ Len(xCalls) = 2 <=>
                  /\ ~xCalls[1].result.ok
                  /\ xCalls[1].result.err
                         \in {"InsufficientBalance", "InsufficientAllowance"}
           /\ xResult = xCalls[Len(xCalls)].result

\* The allowance was too small, the retry with the maximum hit the balance
\* limit, and that error was returned without another retry.
C26_Witness ==
    /\ xPc = "returned"
    /\ Len(xCalls) = 2
    /\ xCalls[1].result.err = "InsufficientAllowance"
    /\ xCalls[2].amount # xCalls[1].amount
    /\ xResult.err = "InsufficientBalance"

=============================================================================
